---- MODULE Spec2Model ----
(***************************************************************************)
(* Radicale rights backend "from_file": Rights.authorized(user, path,      *)
(* permissions) of radicale/rights/from_file.py.                           *)
(*                                                                         *)
(* A text is a sequence of one-character strings.  The library calls the   *)
(* method makes (re.escape, configparser's BasicInterpolation, str.format, *)
(* re.fullmatch) are modelled by what they do on the characters, as of     *)
(* Python >= 3.7.                                                          *)
(***************************************************************************)
EXTENDS Integers, Sequences, FiniteSets, TLC

\* ------------------------------------------------------------------ bounds

\* Longest rights file, in sections.
MaxRules == 2

\* configparser.MAX_INTERPOLATION_DEPTH
MAX_INTERPOLATION_DEPTH == 10

\* ------------------------------------------------------------------- texts

EmptyStr == << >>

Digits == {"0", "1", "2", "3", "4", "5", "6", "7", "8", "9"}

DigitValue(c) ==
    CASE c = "0" -> 0 [] c = "1" -> 1 [] c = "2" -> 2 [] c = "3" -> 3
      [] c = "4" -> 4 [] c = "5" -> 5 [] c = "6" -> 6 [] c = "7" -> 7
      [] c = "8" -> 8 [] c = "9" -> 9

Chars(s) == { s[i] : i \in 1..Len(s) }

Drop(s, n) == SubSeq(s, n + 1, Len(s))

\* The least index >= from at which s holds c, or 0.
RECURSIVE Find(_, _, _)
Find(s, c, from) ==
    IF from > Len(s) THEN 0
    ELSE IF s[from] = c THEN from
    ELSE Find(s, c, from + 1)

\* A computed text, or the exception that replaced it.
Ok(v) == [ok |-> TRUE, val |-> v, err |-> "none"]
Err(e) == [ok |-> FALSE, val |-> EmptyStr, err |-> e]

\* a then b, the first exception raised winning.
Cat(a, b) ==
    IF ~a.ok THEN a
    ELSE IF ~b.ok THEN b
    ELSE Ok(a.val \o b.val)

\* --------------------------------------------------------------- re.escape

\* re._special_chars_map: the characters re.escape puts a backslash before.
SpecialChars ==
    {"(", ")", "[", "]", "{", "}", "?", "*", "+", "-", "|", "^", "$",
     "\\", ".", "&", "~", "#", " "}

RECURSIVE ReEscape(_)
ReEscape(s) ==
    IF s = EmptyStr THEN EmptyStr
    ELSE (IF Head(s) \in SpecialChars THEN <<"\\", Head(s)>> ELSE <<Head(s)>>)
         \o ReEscape(Tail(s))

\* ------------------------------------------------ configparser interpolation

\* The spelling of each option name, as a reference %(name)s writes it.
OptionText ==
    [login       |-> <<"l", "o", "g", "i", "n">>,
     path        |-> <<"p", "a", "t", "h">>,
     user        |-> <<"u", "s", "e", "r">>,
     collection  |-> <<"c", "o", "l", "l", "e", "c", "t", "i", "o", "n">>,
     permissions |-> <<"p", "e", "r", "m", "i", "s", "s", "i", "o", "n", "s">>]

\* RawConfigParser._unify_values: the section's options over the defaults.
UnifyValues(opts, defaults) ==
    [k \in (DOMAIN opts) \cup (DOMAIN defaults) |->
        IF k \in DOMAIN opts THEN opts[k] ELSE defaults[k]]

\* BasicInterpolation._interpolate_some: "%%" is a percent sign, "%(name)s"
\* is the value of option name, itself interpolated when it holds a "%";
\* any other use of "%" raises InterpolationSyntaxError.
RECURSIVE InterpolateSome(_, _, _)
InterpolateSome(rest, map, depth) ==
    IF depth > MAX_INTERPOLATION_DEPTH THEN Err("InterpolationDepthError")
    ELSE IF rest = EmptyStr THEN Ok(EmptyStr)
    ELSE IF Head(rest) # "%"
    THEN Cat(Ok(<<Head(rest)>>), InterpolateSome(Tail(rest), map, depth))
    ELSE IF Len(rest) >= 2 /\ rest[2] = "%"
    THEN Cat(Ok(<<"%">>), InterpolateSome(Drop(rest, 2), map, depth))
    ELSE IF Len(rest) >= 2 /\ rest[2] = "("
    THEN LET close == Find(rest, ")", 3)
             var   == SubSeq(rest, 3, close - 1)
             keys  == { k \in DOMAIN map : OptionText[k] = var }
         IN  IF close < 4 \/ close >= Len(rest) \/ rest[close + 1] # "s"
             THEN Err("InterpolationSyntaxError")
             ELSE IF keys = {} THEN Err("InterpolationMissingOptionError")
             ELSE LET v == map[CHOOSE k \in keys : TRUE]
                  IN  Cat(IF "%" \in Chars(v)
                          THEN InterpolateSome(v, map, depth + 1)
                          ELSE Ok(v),
                          InterpolateSome(Drop(rest, close + 1), map, depth))
    ELSE Err("InterpolationSyntaxError")

\* ConfigParser.get with fallback="": a missing option reads as the empty
\* text instead of raising NoOptionError.
ConfigGetFallback(opts, defaults, option) ==
    LET map == UnifyValues(opts, defaults)
    IN  IF option \notin DOMAIN map THEN Ok(EmptyStr)
        ELSE InterpolateSome(map[option], map, 1)

\* ConfigParser.get(section, option): the interpolated value of the option,
\* looked up in the section and then in the defaults; NoOptionError when
\* neither has it.
ConfigGet(opts, defaults, option) ==
    LET map == UnifyValues(opts, defaults)
    IN  IF option \notin DOMAIN map THEN Err("NoOptionError")
        ELSE InterpolateSome(map[option], map, 1)

\* -------------------------------------------------------------- str.format

\* The value of a text of digits.
RECURSIVE Number(_)
Number(s) ==
    IF s = EmptyStr THEN 0
    ELSE 10 * Number(SubSeq(s, 1, Len(s) - 1)) + DigitValue(s[Len(s)])

\* template.format(*args) from character i on.  "{{" and "}}" are braces, a
\* lone "}" or an unclosed "{" is a ValueError, "{}" takes the next argument
\* and "{N}" argument N (counted from 0), an IndexError when there is none;
\* the two numberings do not mix; a field name that is no number is a
\* KeyError (there are no keyword arguments).  mode is "none", "auto" or
\* "manual", next the index "{}" takes next.
RECURSIVE FormatFrom(_, _, _, _)
FormatFrom(t, args, mode, next) ==
    IF t = EmptyStr THEN Ok(EmptyStr)
    ELSE IF Head(t) \notin {"{", "}"}
    THEN Cat(Ok(<<Head(t)>>), FormatFrom(Tail(t), args, mode, next))
    ELSE IF Len(t) >= 2 /\ t[2] = Head(t)
    THEN Cat(Ok(<<Head(t)>>), FormatFrom(Drop(t, 2), args, mode, next))
    ELSE IF Head(t) = "}" THEN Err("ValueError")
    ELSE LET close == Find(t, "}", 2)
             field == SubSeq(t, 2, close - 1)
         IN  IF close = 0 \/ "{" \in Chars(field) THEN Err("ValueError")
             ELSE IF field = EmptyStr
             THEN IF mode = "manual" THEN Err("ValueError")
                  ELSE IF next + 1 > Len(args) THEN Err("IndexError")
                  ELSE Cat(Ok(args[next + 1]),
                           FormatFrom(Drop(t, close), args, "auto", next + 1))
             ELSE IF Chars(field) \subseteq Digits
             THEN IF mode = "auto" THEN Err("ValueError")
                  ELSE IF Number(field) + 1 > Len(args) THEN Err("IndexError")
                  ELSE Cat(Ok(args[Number(field) + 1]),
                           FormatFrom(Drop(t, close), args, "manual", next))
             ELSE Err("KeyError")

Format(t, args) == FormatFrom(t, args, "none", 0)

\* ------------------------------------------------------------ re.fullmatch

\* The regular expressions modelled: literal characters, "\" before a
\* character that is no letter or digit (that character, literally), "."
\* (any character; the texts hold no line break), capturing groups, and the
\* greedy repeats "*" and "+" of one character, "." or escaped character.
\* Rights files and requests are drawn so that no other construct is met:
\* character classes, alternation, anchors, "?", counted repeats, repeated
\* groups and escapes of letters or digits are left out, and a pattern that
\* holds one does not compile here.
AlNum ==
    Digits \cup {"a", "b", "c", "e", "g", "h", "i", "l", "m", "n", "o", "p",
                 "r", "s", "t", "u", "w"}

RegexMeta == {"[", "]", "?", "|", "^", "$"}

\* One element of a compiled pattern: a character to consume (t "chr" for
\* the character c, "any" for "."), repeated as q says, or the start or end
\* of capturing group g.
Item(t, c, g, q) == [t |-> t, c |-> c, g |-> g, q |-> q]

\* sre_parse: the pattern as elements, or re.error for an unbalanced
\* parenthesis, a repeat with nothing before it, a repeat of a repeat, or a
\* trailing backslash.  stack holds the groups open at i, ngroups counts the
\* groups opened so far.
RECURSIVE ParseFrom(_, _, _, _, _)
ParseFrom(p, i, items, stack, ngroups) ==
    IF i > Len(p)
    THEN IF stack # << >> THEN [ok |-> FALSE, items |-> << >>, ngroups |-> 0]
         ELSE [ok |-> TRUE, items |-> items, ngroups |-> ngroups]
    ELSE LET c    == p[i]
             bad  == [ok |-> FALSE, items |-> << >>, ngroups |-> 0]
             last == items[Len(items)]
         IN  CASE c = "\\" ->
                    IF i = Len(p) \/ p[i + 1] \in AlNum THEN bad
                    ELSE ParseFrom(p, i + 2,
                                   Append(items, Item("chr", p[i + 1], 0, "one")),
                                   stack, ngroups)
               [] c = "(" ->
                    ParseFrom(p, i + 1,
                              Append(items, Item("open", "", ngroups + 1, "one")),
                              <<ngroups + 1>> \o stack, ngroups + 1)
               [] c = ")" ->
                    IF stack = << >> THEN bad
                    ELSE ParseFrom(p, i + 1,
                                   Append(items, Item("close", "", Head(stack), "one")),
                                   Tail(stack), ngroups)
               [] c \in {"*", "+"} ->
                    IF items = << >> \/ last.t \in {"open", "close"} \/ last.q # "one"
                    THEN bad
                    ELSE ParseFrom(p, i + 1,
                                   [items EXCEPT ![Len(items)].q =
                                        IF c = "*" THEN "star" ELSE "plus"],
                                   stack, ngroups)
               [] c = "." ->
                    ParseFrom(p, i + 1, Append(items, Item("any", "", 0, "one")),
                              stack, ngroups)
               [] c \in RegexMeta -> bad
               [] OTHER ->
                    ParseFrom(p, i + 1, Append(items, Item("chr", c, 0, "one")),
                              stack, ngroups)

Compile(p) == ParseFrom(p, 1, << >>, << >>, 0)

Consumes(item, ch) == item.t = "any" \/ (item.t = "chr" /\ item.c = ch)

\* How many characters of s from pos on the element consumes in a row.
RECURSIVE Run(_, _, _)
Run(item, s, pos) ==
    IF pos <= Len(s) /\ Consumes(item, s[pos]) THEN 1 + Run(item, s, pos + 1)
    ELSE 0

NoMatch == [matched |-> FALSE, caps |-> << >>]

\* The backtracking matcher: elements i.. against s from pos on, to the end
\* of s.  A repeat tries its longest run first (greedy), so the captures are
\* those of the first match in the matcher's order.  caps[g] is where group
\* g starts and ends.
RECURSIVE MatchFrom(_, _, _, _, _)
RECURSIVE TryCount(_, _, _, _, _, _, _)
MatchFrom(items, i, s, pos, caps) ==
    IF i > Len(items)
    THEN IF pos = Len(s) + 1 THEN [matched |-> TRUE, caps |-> caps] ELSE NoMatch
    ELSE LET it == items[i]
         IN  CASE it.t = "open" ->
                    MatchFrom(items, i + 1, s, pos, [caps EXCEPT ![it.g].from = pos])
               [] it.t = "close" ->
                    MatchFrom(items, i + 1, s, pos, [caps EXCEPT ![it.g].to = pos])
               [] it.q = "one" ->
                    IF pos <= Len(s) /\ Consumes(it, s[pos])
                    THEN MatchFrom(items, i + 1, s, pos + 1, caps)
                    ELSE NoMatch
               [] OTHER ->
                    TryCount(items, i, s, pos, caps, Run(it, s, pos),
                             IF it.q = "plus" THEN 1 ELSE 0)

TryCount(items, i, s, pos, caps, k, min) ==
    IF k < min THEN NoMatch
    ELSE LET m == MatchFrom(items, i + 1, s, pos + k, caps)
         IN  IF m.matched THEN m
             ELSE TryCount(items, i, s, pos, caps, k - 1, min)

\* re.fullmatch(pattern, string): re.error (ok FALSE), None (matched FALSE)
\* or a match object, of which groups is what .groups() returns.
FullMatch(pattern, string) ==
    LET re == Compile(pattern)
    IN  IF ~re.ok THEN [ok |-> FALSE, matched |-> FALSE, groups |-> << >>]
        ELSE LET m == MatchFrom(re.items, 1, string, 1,
                                [g \in 1..re.ngroups |-> [from |-> 0, to |-> 0]])
             IN  [ok |-> TRUE, matched |-> m.matched,
                  groups |-> IF m.matched
                             THEN [g \in 1..re.ngroups |->
                                     SubSeq(string, m.caps[g].from, m.caps[g].to - 1)]
                             ELSE << >>]

\* ------------------------------------------------- collaborators of the method

\* pathutils.strip_path: the path without its leading and trailing slashes.
RECURSIVE StripPath(_)
StripPath(path) ==
    IF path = EmptyStr THEN EmptyStr
    ELSE IF Head(path) = "/" THEN StripPath(Tail(path))
    ELSE IF path[Len(path)] = "/" THEN StripPath(SubSeq(path, 1, Len(path) - 1))
    ELSE path

\* rights.intersect_permissions: the symbols both texts hold.
IntersectPermissions(a, b) == Chars(a) \cap Chars(b)

\* ------------------------------------------------------------ the rights file

\* self._filename, from the configuration (section "rights", key "file").
Filename == "rights"

\* A section of the rights file: its name and the options it sets.
Section(name, opts) == [name |-> name, opts |-> opts]

LOGIN == <<"%", "(", "l", "o", "g", "i", "n", ")", "s">>
PATH == <<"%", "(", "p", "a", "t", "h", ")", "s">>

\* The sections the rights files of the model are written from.
Catalogue ==
    { Section("owner",  [user |-> <<"(", ".", "+", ")">>,
                         collection |-> <<"{", "0", "}", "/", ".", "*">>,
                         permissions |-> <<"r", "w">>]),
      Section("read",   [user |-> <<".", "+">>,
                         collection |-> <<".", "*">>,
                         permissions |-> <<"r">>]),
      Section("read",   [user |-> <<".", "*">>,
                         collection |-> <<".", "*">>,
                         permissions |-> <<"r", "w">>]),
      Section("self",   [user |-> LOGIN,
                         collection |-> PATH,
                         permissions |-> <<"r", "w">>]),
      Section("badidx", [user |-> <<".", "+">>,
                         collection |-> <<"{", "0", "}", "/", ".", "*">>,
                         permissions |-> <<"r", "w">>]),
      Section("badre",  [user |-> <<"a", ".", "*">>,
                         collection |-> <<"a", "(">>,
                         permissions |-> <<"r", "w">>]),
      Section("nouser", [collection |-> <<".", "*">>,
                         permissions |-> <<"r">>]),
      Section("nocoll", [user |-> <<"b">>,
                         permissions |-> <<"r">>]),
      Section("noperm", [user |-> <<".", "*">>,
                         collection |-> <<"b", "/", ".", "*">>]) }

\* What is on disk under the file name: nothing readable, a text that is no
\* configuration file, or a text of sections.
MissingFile == [readable |-> FALSE, syntax |-> TRUE, sections |-> << >>]
GarbledFile == [readable |-> TRUE, syntax |-> FALSE, sections |-> << >>]

RECURSIVE SeqsUpTo(_, _)
SeqsUpTo(S, n) ==
    IF n = 0 THEN { << >> }
    ELSE LET shorter == SeqsUpTo(S, n - 1)
         IN  shorter \cup { Append(q, x) : q \in shorter, x \in S }

Files ==
    {MissingFile, GarbledFile}
        \cup { [readable |-> TRUE, syntax |-> TRUE, sections |-> q] :
                 q \in SeqsUpTo(Catalogue, MaxRules) }

\* The callers' arguments.  user is a text or None (given FALSE).
None == [given |-> FALSE, text |-> EmptyStr]
Text(t) == [given |-> TRUE, text |-> t]

Users ==
    {None, Text(EmptyStr), Text(<<"a">>), Text(<<"a", ".">>), Text(<<"a", "%">>),
     Text(<<"{", "0", "}">>)}

Paths ==
    { <<"/", "a", "/", "b", "/">>, <<"a", "b", "/", "b">>,
      <<"a", ".", "/", "b">>, <<"b">>, <<"{", "0", "}", "/", "b">>,
      <<"%", "%">> }

Requested == { EmptyStr, <<"r">>, <<"w">> }

\* ------------------------------------------------------------------- state

VARIABLES
    file,                \* what is on disk under self._filename
    pc,                  \* "idle", "scan" (in the for loop), "returned", "raised"
    user_arg,            \* the user argument as passed (a text or None)
    path,                \* the path argument
    permissions,         \* the permissions argument
    user,                \* user, after line 49
    sane_path,
    user_escaped,
    sane_path_escaped,
    rights_config,       \* the parsed file: its defaults and its sections
    section,             \* the index of the section the for loop is at
    result,              \* what the call returned or raised
    log                  \* the logger's records of this call

vars ==
    <<file, pc, user_arg, path, permissions, user, sane_path, user_escaped,
      sane_path_escaped, rights_config, section, result, log>>

\* An exception: its type, the section and option it is about ("" when
\* none), the file name it carries and the type of the exception it was
\* raised from ("" when none).
Exception(type, sec, option, filename, cause) ==
    [type |-> type, section |-> sec, option |-> option,
     filename |-> filename, cause |-> cause]

NoException == Exception("", "", "", "", "")

NoResult == [kind |-> "none", value |-> {}, exc |-> NoException]
Return(value) == [kind |-> "return", value |-> value, exc |-> NoException]
Raise(exc) == [kind |-> "raise", value |-> {}, exc |-> exc]

\* str(user): None becomes the text "None".
OrEmptyStr(u) == IF u.given THEN u.text ELSE <<"N", "o", "n", "e">>

\* user or ""
OrEmpty(u) == IF u.given /\ u.text # EmptyStr THEN u.text ELSE EmptyStr

\* rights_config.read(self._filename), lines 56-62: the sections in file
\* order, or the exception the try block ends in.  read() returns no file
\* name for a file it cannot open; a text that is no configuration file is a
\* ParsingError and a section name met twice a DuplicateSectionError (the
\* parser is strict).
DuplicateSections(f) ==
    \E i, j \in 1..Len(f.sections) : i < j /\ f.sections[i].name = f.sections[j].name

\* The read without the check of its return value: a file that cannot be
\* opened reads as a file without sections.
ReadLenient(f) ==
    IF ~f.readable
    THEN [ok |-> TRUE, cause |-> "", sections |-> << >>]
    ELSE IF ~f.syntax
    THEN [ok |-> FALSE, cause |-> "ParsingError", sections |-> << >>]
    ELSE IF DuplicateSections(f)
    THEN [ok |-> FALSE, cause |-> "DuplicateSectionError", sections |-> << >>]
    ELSE [ok |-> TRUE, cause |-> "", sections |-> f.sections]

Read(f) ==
    IF ~f.readable
    THEN [ok |-> FALSE, cause |-> "RuntimeError", sections |-> << >>]
    ELSE IF ~f.syntax
    THEN [ok |-> FALSE, cause |-> "ParsingError", sections |-> << >>]
    ELSE IF DuplicateSections(f)
    THEN [ok |-> FALSE, cause |-> "DuplicateSectionError", sections |-> << >>]
    ELSE [ok |-> TRUE, cause |-> "", sections |-> f.sections]

\* The sections in the reverse of file order.
ConfigSectionsReversed(config) ==
    [i \in 1..Len(config.sections) |->
        config.sections[Len(config.sections) + 1 - i]]

\* rights_config.sections(), line 63: the section names in file order; here
\* the sections themselves.
ConfigSections(config) == config.sections

\* Lines 64-73, the try block of one loop iteration: the exception it ends
\* in, or user_match and collection_match as truth values.
Evaluation(raised, option, cause, um, cm) ==
    [raised |-> raised, option |-> option, cause |-> cause,
     user_match |-> um, collection_match |-> cm]

\* user_match.groups(), not escaped.
GroupsUnescaped(groups) == groups

\* map(re.escape, user_match.groups()), line 70.
EscapeGroups(groups) == [g \in DOMAIN groups |-> ReEscape(groups[g])]

\* Lines 68-70 with the exceptions swallowed: a collection pattern that
\* cannot be formatted or compiled counts as one that does not match.
CollectionMatchLenient(collection_pattern, groups, sp) ==
    LET formatted == Format(collection_pattern, EscapeGroups(groups))
        match     == FullMatch(formatted.val, sp)
    IN  [ok |-> TRUE, err |-> "none",
         matched |-> formatted.ok /\ match.ok /\ match.matched]

\* Lines 68-70, for a user that matched: the collection pattern, formatted
\* with the escaped groups, against the path.  str.format and re.fullmatch
\* may both raise.
CollectionMatch(collection_pattern, groups, sp) ==
    LET formatted == Format(collection_pattern, EscapeGroups(groups))
        match     == FullMatch(formatted.val, sp)
    IN  IF ~formatted.ok THEN [ok |-> FALSE, err |-> formatted.err, matched |-> FALSE]
        ELSE IF ~match.ok THEN [ok |-> FALSE, err |-> "re.error", matched |-> FALSE]
        ELSE [ok |-> TRUE, err |-> "none", matched |-> match.matched]

EvalSection(sec, defaults, u, sp) ==
    LET user_pattern       == ConfigGet(sec.opts, defaults, "user")
        collection_pattern == ConfigGet(sec.opts, defaults, "collection")
        user_match         == FullMatch(user_pattern.val, u)
        collection_match   == CollectionMatch(collection_pattern.val,
                                              user_match.groups, sp)
    IN  IF ~user_pattern.ok
        THEN Evaluation(TRUE, "user", user_pattern.err, FALSE, FALSE)
        ELSE IF ~collection_pattern.ok
        THEN Evaluation(TRUE, "collection", collection_pattern.err, FALSE, FALSE)
        ELSE IF ~user_match.ok
        THEN Evaluation(TRUE, "user", "re.error", FALSE, FALSE)
        ELSE IF ~user_match.matched
        THEN Evaluation(FALSE, "", "", FALSE, FALSE)
        ELSE IF ~collection_match.ok
        THEN Evaluation(TRUE, "collection", collection_match.err, TRUE, FALSE)
        ELSE Evaluation(FALSE, "", "", TRUE, collection_match.matched)

\* Lines 78-79 without the intersection: the section's permissions as they
\* are.
GrantUnrestricted(sec, defaults, requested) ==
    LET granted == ConfigGet(sec.opts, defaults, "permissions")
    IN  IF granted.ok THEN Return(Chars(granted.val))
        ELSE Raise(Exception(granted.err, sec.name, "permissions", "", ""))

\* Lines 78-79: the return value of a matching section, or the exception
\* rights_config.get raises outside the try block.
Grant(sec, defaults, requested) ==
    LET granted == ConfigGet(sec.opts, defaults, "permissions")
    IN  IF granted.ok THEN Return(IntersectPermissions(requested, granted.val))
        ELSE Raise(Exception(granted.err, sec.name, "permissions", "", ""))

\* The for loop from section i on, lines 63-84, as one value: what the call
\* returns or raises.
RECURSIVE Scan(_, _, _, _, _, _)
Scan(sections, i, defaults, u, sp, requested) ==
    IF i > Len(sections) THEN Return({})
    ELSE LET ev == EvalSection(sections[i], defaults, u, sp)
         IN  IF ev.raised
             THEN Raise(Exception("RuntimeError", sections[i].name, ev.option,
                                  Filename, ev.cause))
             ELSE IF ev.user_match /\ ev.collection_match
             THEN Grant(sections[i], defaults, requested)
             ELSE Scan(sections, i + 1, defaults, u, sp, requested)

\* authorized(user, path, permissions) with f on disk, as one value.
Authorized(f, u, p, requested) ==
    LET read == Read(f)
        defaults == [login |-> ReEscape(OrEmpty(u)), path |-> ReEscape(StripPath(p))]
    IN  IF ~read.ok
        THEN Raise(Exception("RuntimeError", "", "", Filename, read.cause))
        ELSE Scan(ConfigSections([defaults |-> defaults, sections |-> read.sections]),
                  1, defaults, OrEmpty(u), StripPath(p), requested)

\* --------------------------------------------------------------- operations

Init ==
    /\ file \in Files
    /\ pc = "idle"
    /\ user_arg = None
    /\ path = EmptyStr
    /\ permissions = EmptyStr
    /\ user = EmptyStr
    /\ sane_path = EmptyStr
    /\ user_escaped = EmptyStr
    /\ sane_path_escaped = EmptyStr
    /\ rights_config = [defaults |-> [login |-> EmptyStr, path |-> EmptyStr],
                        sections |-> << >>]
    /\ section = 0
    /\ result = NoResult
    /\ log = << >>

\* authorized(user, path, permissions), lines 48-62: the arguments are
\* normalised and escaped and the rights file is read.
Call(u, p, perms) ==
    /\ pc = "idle"
    /\ user_arg' = u
    /\ path' = p
    /\ permissions' = perms
    /\ user' = OrEmpty(u)
    /\ sane_path' = StripPath(p)
    /\ user_escaped' = ReEscape(user')
    /\ sane_path_escaped' = ReEscape(sane_path')
    /\ LET read == Read(file)
       IN  /\ rights_config' = [defaults |-> [login |-> user_escaped',
                                              path |-> sane_path_escaped'],
                                sections |-> read.sections]
           /\ IF read.ok
              THEN /\ pc' = "scan"
                   /\ section' = 1
                   /\ result' = NoResult
              ELSE /\ pc' = "raised"
                   /\ section' = 0
                   /\ result' = Raise(Exception("RuntimeError", "", "",
                                                Filename, read.cause))
    /\ log' = << >>
    /\ UNCHANGED file

\* One iteration of the for loop, lines 63-82.
Iterate ==
    /\ pc = "scan"
    /\ section <= Len(ConfigSections(rights_config))
    /\ LET sec == ConfigSections(rights_config)[section]
           ev  == EvalSection(sec, rights_config.defaults, user, sane_path)
       IN  IF ev.raised
           THEN /\ pc' = "raised"
                /\ result' = Raise(Exception("RuntimeError", sec.name, ev.option,
                                             Filename, ev.cause))
                /\ UNCHANGED <<section, log>>
           ELSE IF ev.user_match /\ ev.collection_match
           THEN /\ log' = Append(log, [level |-> "debug", matches |-> TRUE,
                                       section |-> sec.name])
                /\ result' = Grant(sec, rights_config.defaults, permissions)
                /\ pc' = IF result'.kind = "return" THEN "returned" ELSE "raised"
                /\ UNCHANGED section
           ELSE /\ log' = Append(log, [level |-> "debug", matches |-> FALSE,
                                       section |-> sec.name])
                /\ section' = section + 1
                /\ UNCHANGED <<pc, result>>
    /\ UNCHANGED <<file, user_arg, path, permissions, user, sane_path,
                   user_escaped, sane_path_escaped, rights_config>>

\* Lines 83-84 returning what was asked for: allow by default.
ExhaustedAllows ==
    /\ pc = "scan"
    /\ section > Len(ConfigSections(rights_config))
    /\ log' = Append(log, [level |-> "info", matches |-> FALSE, section |-> ""])
    /\ result' = Return(Chars(permissions))
    /\ pc' = "returned"
    /\ UNCHANGED <<file, user_arg, path, permissions, user, sane_path,
                   user_escaped, sane_path_escaped, rights_config, section>>

\* Lines 83-84: the loop ended without a return.
Exhausted ==
    /\ pc = "scan"
    /\ section > Len(ConfigSections(rights_config))
    /\ log' = Append(log, [level |-> "info", matches |-> FALSE, section |-> ""])
    /\ result' = Return({})
    /\ pc' = "returned"
    /\ UNCHANGED <<file, user_arg, path, permissions, user, sane_path,
                   user_escaped, sane_path_escaped, rights_config, section>>

Next ==
    \/ \E u \in Users, p \in Paths, perms \in Requested : Call(u, p, perms)
    \/ Iterate
    \/ Exhausted

Spec == Init /\ [][Next]_vars

\* ------------------------------------------------------------------- claims

RequiredKeys == {"user", "collection", "permissions"}

\* The call is over: it returned or raised.
Done == pc \in {"returned", "raised"}

\* The rights file was read and parsed.
Loaded == Read(file).ok

\* The sections of the file on disk, in source order.
SourceRules == file.sections

RuleIndexes == 1..Len(SourceRules)

\* What evaluating rule i for the request of the call gives.
Ev(i) == EvalSection(SourceRules[i], rights_config.defaults, user, sane_path)

\* Rule i's identity pattern fully matches the identity and its substituted
\* resource pattern fully matches the normalized path.
FullyMatches(i) ==
    LET ev == Ev(i) IN ~ev.raised /\ ev.user_match /\ ev.collection_match

\* Evaluating rule i raises.
Fails(i) == Ev(i).raised

HasKey(i, k) == k \in DOMAIN SourceRules[i].opts

\* The in-order scan gets to rule i: every rule before it was evaluated
\* without error and did not match.
Reached(i) == \A j \in 1..(i - 1) : ~Fails(j) /\ ~FullyMatches(j)

\* requested /\ permissions(rule i)
Granted(i) ==
    Chars(permissions)
        \cap Chars(ConfigGet(SourceRules[i].opts, rights_config.defaults,
                             "permissions").val)

\* Every section of the file sets the three keys of a rule.
AllKeysPresent ==
    \A i \in RuleIndexes : DOMAIN SourceRules[i].opts = RequiredKeys

\* C1, as claimed: in a file of complete rules, if rule i is the first rule
\* in source order whose patterns both fully match, the call returns exactly
\* the requested permissions that rule i grants.
C1_FirstMatchAsClaimed ==
    (Done /\ Loaded /\ AllKeysPresent) =>
        \A i \in RuleIndexes :
            ( /\ FullyMatches(i)
              /\ \A j \in 1..(i - 1) : ~FullyMatches(j)
              /\ HasKey(i, "permissions") )
            => result = Return(Granted(i))

\* C1, amended: if rule i is the first rule in source order whose patterns
\* both fully match, and no rule before it fails to evaluate, the call
\* returns exactly the requested permissions that rule i grants, and the
\* scan stopped at rule i: exactly i rules were evaluated, rule i last.
C1_FirstMatchWins ==
    (Done /\ Loaded) =>
        \A i \in RuleIndexes :
            (FullyMatches(i) /\ Reached(i) /\ HasKey(i, "permissions"))
            => /\ result = Return(Granted(i))
               /\ section = i
               /\ Len(log) = i
               /\ log[i] = [level |-> "debug", matches |-> TRUE,
                            section |-> SourceRules[i].name]

\* C1's case: the first matching rule is followed by a rule that matches too
\* and grants more, or by a malformed one.
C1_Witness ==
    /\ pc = "returned"
    /\ \E i \in RuleIndexes :
          /\ i < Len(SourceRules)
          /\ FullyMatches(i) /\ Reached(i) /\ HasKey(i, "permissions")
          /\ permissions # EmptyStr
          /\ \/ Fails(i + 1)
             \/ /\ FullyMatches(i + 1) /\ HasKey(i + 1, "permissions")
                /\ Granted(i) # Granted(i + 1)

\* C2, as claimed: a rule whose user pattern is the login variable and whose
\* collection pattern is the path variable matches every identity and path
\* it is evaluated for: the evaluation raises nothing and both patterns
\* match, whatever characters the identity and the path hold.
IsSelfRule(sec) ==
    /\ DOMAIN sec.opts = {"user", "collection", "permissions"}
    /\ sec.opts.user = LOGIN
    /\ sec.opts.collection = PATH

C2_InterpolatedLiteralAsClaimed ==
    (pc = "scan" /\ section <= Len(SourceRules) /\ IsSelfRule(SourceRules[section]))
        => FullyMatches(section)

\* C3: a returned permission set is a subset of the requested one.
C3_GrantedSubsetOfRequested ==
    result.kind = "return" => result.value \subseteq Chars(permissions)

\* C3's case: a rule that grants more than was requested matched.
C3_Witness ==
    /\ pc = "returned"
    /\ result.value = {"w"}
    /\ \E i \in RuleIndexes :
          /\ FullyMatches(i) /\ Reached(i)
          /\ SourceRules[i].opts.permissions = <<"r", "w">>

\* No rule matches the request.
NoRuleMatches == \A i \in RuleIndexes : ~FullyMatches(i)

\* C4, as claimed: when the rights file loads, a file of complete rules, and
\* no rule matches both the identity and the path, the call returns the
\* empty set and raises nothing.
C4_DenyByDefaultAsClaimed ==
    (Done /\ Loaded /\ AllKeysPresent /\ NoRuleMatches) => result = Return({})

\* C4, amended: when the rights file loads, no rule fails to evaluate and no
\* rule matches both the identity and the path, the call returns the empty
\* set and raises nothing, after one info record.
C4_DenyByDefault ==
    (Done /\ Loaded /\ NoRuleMatches /\ \A i \in RuleIndexes : ~Fails(i))
        => /\ result = Return({})
           /\ pc = "returned"
           /\ log[Len(log)] = [level |-> "info", matches |-> FALSE, section |-> ""]

\* C4's case: rules were scanned for a request that asks for something and
\* none matched.
C4_Witness ==
    /\ pc = "returned"
    /\ Len(SourceRules) = MaxRules
    /\ permissions # EmptyStr
    /\ NoRuleMatches
    /\ \A i \in RuleIndexes : ~Fails(i)

\* Rule i has both patterns, its identity pattern matches the identity, and
\* its resource pattern is malformed: str.format or the regex compiler
\* rejects it.
Malformed(i) ==
    LET user_pattern       == ConfigGet(SourceRules[i].opts, rights_config.defaults, "user")
        collection_pattern == ConfigGet(SourceRules[i].opts, rights_config.defaults,
                                        "collection")
        user_match         == FullMatch(user_pattern.val, user)
        formatted          == Format(collection_pattern.val,
                                     [g \in DOMAIN user_match.groups |->
                                         ReEscape(user_match.groups[g])])
    IN  /\ user_pattern.ok /\ collection_pattern.ok
        /\ user_match.ok /\ user_match.matched
        /\ ~formatted.ok \/ ~Compile(formatted.val).ok

\* C5: when the scan gets to a malformed rule whose identity pattern
\* matches, the call raises an error that names that rule's section and
\* returns nothing.
C5_MalformedRuleRaises ==
    (Done /\ Loaded) =>
        \A i \in RuleIndexes :
            (Reached(i) /\ Malformed(i))
            => /\ pc = "raised"
               /\ result.kind = "raise"
               /\ result.exc.type = "RuntimeError"
               /\ result.exc.section = SourceRules[i].name
               /\ result.exc.filename = Filename
               /\ result.value = {}

\* C5's case: the malformed rule is followed by one that would match and
\* grant.
C5_Witness ==
    /\ pc = "raised"
    /\ \E i \in RuleIndexes :
          /\ i < Len(SourceRules)
          /\ Reached(i) /\ Malformed(i)
          /\ FullyMatches(i + 1) /\ HasKey(i + 1, "permissions")
          /\ Granted(i + 1) # {}

\* The exception a call raises names section sec and option key.
Names(exc, sec, key) == exc.section = sec /\ exc.option = key

StartsWith(s, prefix) ==
    Len(s) >= Len(prefix) /\ SubSeq(s, 1, Len(prefix)) = prefix

IsOwnerRule(sec) ==
    /\ "user" \in DOMAIN sec.opts /\ sec.opts.user = <<"(", ".", "+", ")">>
    /\ "collection" \in DOMAIN sec.opts
    /\ sec.opts.collection = <<"{", "0", "}", "/", ".", "*">>

\* C7: the rule with user pattern "(.+)" and collection pattern "{0}/.*"
\* matches only a path that starts with the identity, character for
\* character, followed by "/"; and it does match the path that is the
\* identity, "/" and one more name.
C7_CaptureGroupSubstitution ==
    (pc = "scan" /\ section <= Len(SourceRules) /\ IsOwnerRule(SourceRules[section]))
        => /\ FullyMatches(section) => StartsWith(sane_path, user \o <<"/">>)
           /\ (user # EmptyStr /\ sane_path = user \o <<"/", "b">>)
                => FullyMatches(section)

\* C7's case: the identity holds a regex metacharacter and the path is in
\* its own subtree; the owner rule grants.
C7_Witness ==
    /\ pc = "returned"
    /\ user = <<"a", ".">>
    /\ sane_path = <<"a", ".", "/", "b">>
    /\ section <= Len(SourceRules)
    /\ IsOwnerRule(SourceRules[section])
    /\ result.value # {}

\* C8: when the rights file cannot be read or parsed, the call raises a
\* load error that carries the file name and the cause; no rule is
\* evaluated and nothing is returned.
C8_LoadError ==
    (Done /\ (~file.readable \/ ~file.syntax))
        => /\ pc = "raised"
           /\ result.kind = "raise"
           /\ result.exc.type = "RuntimeError"
           /\ result.exc.filename = Filename
           /\ result.exc.cause = (IF file.readable THEN "ParsingError"
                                   ELSE "RuntimeError")
           /\ result.exc.section = ""
           /\ section = 0
           /\ log = << >>

\* C8's case: a call with no file to read.
C8_Witness == pc = "raised" /\ file = MissingFile /\ permissions # EmptyStr

\* C9, as claimed: a rights file in which two sections share a name loads
\* with both rules present, in source order.
C9_DuplicateNamesAsClaimed ==
    (Done /\ file.readable /\ file.syntax /\ DuplicateSections(file))
        => /\ ConfigSections(rights_config) = file.sections
           /\ ~(result.kind = "raise" /\ result.exc.section = "")

\* The caller is anonymous: no identity, or the empty one.
Anonymous == user_arg \in {None, Text(EmptyStr)}

\* C10: None and "" give the same outcome; for such a caller a rule with
\* user pattern ".+" never matches, and a rule with user pattern ".*"
\* passes the identity check for every caller.
C10_AnonymousIdentity ==
    /\ (Done /\ Anonymous)
          => /\ result = Authorized(file, None, path, permissions)
             /\ result = Authorized(file, Text(EmptyStr), path, permissions)
    /\ (pc = "scan" /\ section <= Len(SourceRules) /\ HasKey(section, "user")
           /\ HasKey(section, "collection"))
          => /\ (Anonymous /\ SourceRules[section].opts.user = <<".", "+">>)
                   => (~Ev(section).user_match /\ ~FullyMatches(section))
             /\ SourceRules[section].opts.user = <<".", "*">>
                   => Ev(section).user_match

\* C10's case: a call without identity got past a ".+" rule and was granted
\* by a ".*" rule.
C10_Witness ==
    /\ pc = "returned"
    /\ user_arg = None
    /\ Len(SourceRules) = 2
    /\ Len(log) = 2
    /\ SourceRules[1].opts.user = <<".", "+">>
    /\ SourceRules[2].opts.user = <<".", "*">>
    /\ result.value # {}

====
